---------------------------- MODULE Spec2Model ----------------------------
(***************************************************************************)
(* A model of the TCP header codec of netstack (src/src/tcp.c): the port   *)
(* parser behind the two setters, the header initializer, the mutator      *)
(* hook, and pack/unpack over a shared buffer that grows at the front.     *)
(*                                                                         *)
(* Conventions.  A C array index i is element i + 1 of a TLA+ sequence.    *)
(* A character is its ASCII code.  An error code is an integer, and 0 is   *)
(* success.  control_bits is the set of the flags whose bit is set.  The    *)
(* model checker's integers have 32 bits with a sign, so a 32-bit unsigned *)
(* field n (sequence, acknowledgment) is the pair of its 16-bit halves,    *)
(* <<n \div 65536, n % 65536>>.                                            *)
(***************************************************************************)
EXTENDS Integers, Sequences, FiniteSets

VARIABLES
    tcp,        \* the struct netstack_tcp the operations act on
    buffer,     \* the struct netstack_buffer: [data, size]
    op,         \* the operation that ran last
    err,        \* the code it returned
    arg,        \* its input: the string, the mutator, or the shift's outcome
    calls,      \* how many times it invoked the mutator's callback
    layers,     \* the headers packed so far, the last one first
    payload     \* what the buffer held before the first pack

vars == <<tcp, buffer, op, err, arg, calls, layers, payload>>

(***************************************************************************)
(* Bounds of the model.                                                    *)
(***************************************************************************)
MaxPacks == 2       \* packs onto one buffer, in Spec
MaxTrips == 1       \* packs onto one buffer, in SpecCodec
MaxStrLen == 6      \* characters of a port string, in SpecPort

(***************************************************************************)
(* Error codes (netstack/error.h) and the null pointer.                    *)
(***************************************************************************)
NETSTACK_ERROR_NONE == 0
NETSTACK_ERROR_BAD_FIELD == 1
NETSTACK_ERROR_MISSING_DATA == 2
NULL == "NULL"

\* The codes a failed netstack_buffer_shift may return.
ShiftErrors == {3, -1}

\* What the bytes a shift has just inserted may hold before they are written.
Garbage == {0, 255}

(***************************************************************************)
(* The header.                                                             *)
(***************************************************************************)
Flags == {"NS", "CWR", "ECE", "URG", "ACK", "PSH", "RST", "SYN", "FIN"}

Pow2(n) == 2 ^ n

\* The 32-bit unsigned number hi * 65536 + lo
U32(hi, lo) == <<hi, lo>>

Header(src, dst, seq, ack, off, bits, win, sum, urg) ==
    [source |-> src, destination |-> dst, sequence |-> seq,
     acknowledgment |-> ack, data_offset |-> off, control_bits |-> bits,
     window_size |-> win, checksum |-> sum, urgent_pointer |-> urg]

\* netstack_tcp_init
netstack_tcp_init ==
    [source |-> 0,
     destination |-> 0,
     sequence |-> U32(0, 0),
     acknowledgment |-> U32(0, 0),
     data_offset |-> 5,
     control_bits |-> {},
     window_size |-> 1,
     checksum |-> 0,
     urgent_pointer |-> 0]

(***************************************************************************)
(* parse_port.  The loop reads str[0 .. str_size - 1] after the clamp to   *)
(* five characters; at the first character that is no digit the function   *)
(* returns BAD_FIELD from inside the loop.                                 *)
(* port is an unsigned long: five digits never overflow it.                *)
(***************************************************************************)
\* A plausible slip: the upper bound of the digit test left out.
IsDigit_NoUpper(c) == c >= 48

IsDigit(c) == (c >= 48) /\ (c <= 57)

RECURSIVE parse_loop(_, _, _, _)
parse_loop(str, str_size, i, port) ==
    IF i < str_size
    THEN LET c == str[i + 1] IN
         IF IsDigit(c)
         THEN parse_loop(str, str_size, i + 1, port * 10 + (c - 48))
         ELSE [returned |-> TRUE, port |-> port]
    ELSE [returned |-> FALSE, port |-> port]

\* A plausible slip: no clamp to five characters.
ClampSize_None(str_size) == str_size

ClampSize(str_size) == IF str_size > 5 THEN 5 ELSE str_size

\* A plausible slip: >= for > in the test of the maximum.
parse_port_Geq(port_old, str, str_size) ==
    LET r == parse_loop(str, ClampSize(str_size), 0, 0) IN
    IF r.returned
    THEN [err |-> NETSTACK_ERROR_BAD_FIELD, port |-> port_old]
    ELSE IF r.port >= 65535
         THEN [err |-> NETSTACK_ERROR_BAD_FIELD, port |-> port_old]
         ELSE [err |-> NETSTACK_ERROR_NONE, port |-> r.port]

\* The result: the code, and the value of *port_ptr afterwards.
parse_port(port_old, str, str_size) ==
    LET r == parse_loop(str, ClampSize(str_size), 0, 0) IN
    IF r.returned
    THEN [err |-> NETSTACK_ERROR_BAD_FIELD, port |-> port_old]
    ELSE IF r.port > 65535
         THEN [err |-> NETSTACK_ERROR_BAD_FIELD, port |-> port_old]
         ELSE [err |-> NETSTACK_ERROR_NONE, port |-> r.port]

netstack_tcp_set_source(h, str, str_size) ==
    LET r == parse_port(h.source, str, str_size) IN
    [err |-> r.err, tcp |-> [h EXCEPT !.source = r.port]]

netstack_tcp_set_destination(h, str, str_size) ==
    LET r == parse_port(h.destination, str, str_size) IN
    [err |-> r.err, tcp |-> [h EXCEPT !.destination = r.port]]

(***************************************************************************)
(* The mutator: [data, mutate_tcp].  mutate_tcp is NULL or names a         *)
(* callback; RunCallback is what the callbacks of the model do with the    *)
(* data and the header they are handed.                                    *)
(***************************************************************************)
RunCallback(fn, data, h) ==
    CASE fn = "set_window" ->
            [ret |-> NETSTACK_ERROR_NONE, tcp |-> [h EXCEPT !.window_size = data]]
      [] fn = "reset" ->
            [ret |-> data, tcp |-> [h EXCEPT !.control_bits = {"RST", "ACK"}]]

Mutators ==
    { [data |-> 1234, mutate_tcp |-> NULL],
      [data |-> 1234, mutate_tcp |-> "set_window"],
      [data |-> 7, mutate_tcp |-> "reset"] }

\* A plausible slip: the callback's code dropped.
netstack_tcp_mutate_DropsCode(h, mutator) ==
    IF mutator.mutate_tcp = NULL
    THEN [err |-> NETSTACK_ERROR_NONE, tcp |-> h, calls |-> 0]
    ELSE LET r == RunCallback(mutator.mutate_tcp, mutator.data, h) IN
         [err |-> NETSTACK_ERROR_NONE, tcp |-> r.tcp, calls |-> 1]

netstack_tcp_mutate(h, mutator) ==
    IF mutator.mutate_tcp = NULL
    THEN [err |-> NETSTACK_ERROR_NONE, tcp |-> h, calls |-> 0]
    ELSE LET r == RunCallback(mutator.mutate_tcp, mutator.data, h) IN
         [err |-> r.ret, tcp |-> r.tcp, calls |-> 1]

(***************************************************************************)
(* The buffer.  netstack_buffer_shift(buffer, n) either fails, returning   *)
(* a nonzero code and leaving the buffer as it was, or inserts n bytes at  *)
(* the front and moves the content behind them.                            *)
(***************************************************************************)
Fill(n, b) == [i \in 1..n |-> b]

Buffer(bytes) == [data |-> bytes, size |-> Len(bytes)]

netstack_buffer_shift(b, n) ==
    { [err |-> 0, buffer |-> Buffer(Fill(n, g) \o b.data)] : g \in Garbage }
    \cup { [err |-> e, buffer |-> b] : e \in ShiftErrors }

(***************************************************************************)
(* netstack_tcp_pack.                                                      *)
(***************************************************************************)
\* (mask & x) >> shift, for a mask of eight bits at shift
Byte(x, shift) == (x \div Pow2(shift)) % 256

\* The same of a 32-bit field
Byte32(x, shift) == IF shift >= 16 THEN Byte(x[1], shift - 16) ELSE Byte(x[2], shift)

\* header[12] after lines 118-124
PackByte12(bits) == (5 * 16) + (IF "NS" \in bits THEN 1 ELSE 0)

\* A plausible slip: the masks of CWR and ECE exchanged.
PackByte13_Swapped(bits) ==
      (IF "CWR" \in bits THEN 64 ELSE 0)
    + (IF "ECE" \in bits THEN 128 ELSE 0)
    + (IF "URG" \in bits THEN 32 ELSE 0)
    + (IF "ACK" \in bits THEN 16 ELSE 0)
    + (IF "PSH" \in bits THEN 8 ELSE 0)
    + (IF "RST" \in bits THEN 4 ELSE 0)
    + (IF "SYN" \in bits THEN 2 ELSE 0)
    + (IF "FIN" \in bits THEN 1 ELSE 0)

\* header[13] after lines 119-140
PackByte13(bits) ==
      (IF "CWR" \in bits THEN 128 ELSE 0)
    + (IF "ECE" \in bits THEN 64 ELSE 0)
    + (IF "URG" \in bits THEN 32 ELSE 0)
    + (IF "ACK" \in bits THEN 16 ELSE 0)
    + (IF "PSH" \in bits THEN 8 ELSE 0)
    + (IF "RST" \in bits THEN 4 ELSE 0)
    + (IF "SYN" \in bits THEN 2 ELSE 0)
    + (IF "FIN" \in bits THEN 1 ELSE 0)

\* A plausible slip: every index one too high.
Put_OffByOne(header, i, v) == [header EXCEPT ![i + 2] = v]

\* header[i] = v
Put(header, i, v) == [header EXCEPT ![i + 1] = v]

\* Lines 99-149: the twenty assignments, in the order of the code.
WriteHeader(h, header) ==
    LET a0  == Put(header, 0, Byte(h.source, 8))
        a1  == Put(a0, 1, Byte(h.source, 0))
        a2  == Put(a1, 2, Byte(h.destination, 8))
        a3  == Put(a2, 3, Byte(h.destination, 0))
        a4  == Put(a3, 4, Byte32(h.sequence, 24))
        a5  == Put(a4, 5, Byte32(h.sequence, 16))
        a6  == Put(a5, 6, Byte32(h.sequence, 8))
        a7  == Put(a6, 7, Byte32(h.sequence, 0))
        a8  == Put(a7, 8, Byte32(h.acknowledgment, 24))
        a9  == Put(a8, 9, Byte32(h.acknowledgment, 16))
        a10 == Put(a9, 10, Byte32(h.acknowledgment, 8))
        a11 == Put(a10, 11, Byte32(h.acknowledgment, 0))
        a12 == Put(a11, 12, PackByte12(h.control_bits))
        a13 == Put(a12, 13, PackByte13(h.control_bits))
        a14 == Put(a13, 14, Byte(h.window_size, 8))
        a15 == Put(a14, 15, Byte(h.window_size, 0))
        a16 == Put(a15, 16, 0)
        a17 == Put(a16, 17, 0)
        a18 == Put(a17, 18, Byte(h.urgent_pointer, 8))
        a19 == Put(a18, 19, Byte(h.urgent_pointer, 0))
    IN  a19

\* A plausible slip: the shift's code not tested.
netstack_tcp_pack_Unchecked(h, shifted) ==
    [err |-> NETSTACK_ERROR_NONE,
     tcp |-> h,
     buffer |-> [shifted.buffer EXCEPT !.data = WriteHeader(h, @)]]

\* shifted is what netstack_buffer_shift(buffer, 20) gave.
netstack_tcp_pack(h, shifted) ==
    IF shifted.err # 0
    THEN [err |-> shifted.err, tcp |-> h, buffer |-> shifted.buffer]
    ELSE [err |-> NETSTACK_ERROR_NONE,
          tcp |-> h,
          buffer |-> [shifted.buffer EXCEPT !.data = WriteHeader(h, @)]]

(***************************************************************************)
(* netstack_tcp_unpack.                                                    *)
(***************************************************************************)
\* header[i]
Get(header, i) == header[i + 1]

\* header[i] & mask, for a mask of one bit, as a truth value
Bit(byte, mask) == (byte \div mask) % 2 = 1

\* Lines 184-203
UnpackControlBits(b12, b13) ==
         (IF Bit(b12, 1) THEN {"NS"} ELSE {})
    \cup (IF Bit(b13, 128) THEN {"CWR"} ELSE {})
    \cup (IF Bit(b13, 64) THEN {"ECE"} ELSE {})
    \cup (IF Bit(b13, 32) THEN {"URG"} ELSE {})
    \cup (IF Bit(b13, 16) THEN {"ACK"} ELSE {})
    \cup (IF Bit(b13, 8) THEN {"PSH"} ELSE {})
    \cup (IF Bit(b13, 4) THEN {"RST"} ELSE {})
    \cup (IF Bit(b13, 2) THEN {"SYN"} ELSE {})
    \cup (IF Bit(b13, 1) THEN {"FIN"} ELSE {})

\* A plausible slip: the low byte first.
Word16_LittleEndian(header, i) == Get(header, i) + Get(header, i + 1) * 256

\* 0 | header[i] << 8 | header[i + 1]: the bytes do not overlap, so | adds
Word16(header, i) == Get(header, i) * 256 + Get(header, i + 1)

\* 0 | header[i] << 24 | header[i + 1] << 16 | header[i + 2] << 8 | header[i + 3]
Word32(header, i) == U32(Word16(header, i), Word16(header, i + 2))

ReadHeader(header) ==
    [source |-> Word16(header, 0),
     destination |-> Word16(header, 2),
     sequence |-> Word32(header, 4),
     acknowledgment |-> Word32(header, 8),
     data_offset |-> Get(header, 12) \div 16,
     control_bits |-> UnpackControlBits(Get(header, 12), Get(header, 13)),
     window_size |-> Word16(header, 14),
     checksum |-> Word16(header, 16),
     urgent_pointer |-> Word16(header, 18)]

\* A plausible slip: <= for < in the test of the length.
netstack_tcp_unpack_Leq(h, b) ==
    IF b.size <= 20
    THEN [err |-> NETSTACK_ERROR_MISSING_DATA, tcp |-> h, buffer |-> b]
    ELSE [err |-> NETSTACK_ERROR_NONE, tcp |-> ReadHeader(b.data), buffer |-> b]

\* A plausible slip: the header taken off the buffer once read.
netstack_tcp_unpack_Consumes(h, b) ==
    IF b.size < 20
    THEN [err |-> NETSTACK_ERROR_MISSING_DATA, tcp |-> h, buffer |-> b]
    ELSE [err |-> NETSTACK_ERROR_NONE,
          tcp |-> ReadHeader(b.data),
          buffer |-> Buffer(SubSeq(b.data, 21, b.size))]

netstack_tcp_unpack(h, b) ==
    IF b.size < 20
    THEN [err |-> NETSTACK_ERROR_MISSING_DATA, tcp |-> h, buffer |-> b]
    ELSE [err |-> NETSTACK_ERROR_NONE, tcp |-> ReadHeader(b.data), buffer |-> b]

(***************************************************************************)
(* The operations, as actions.  Each records what ran (op), what it was    *)
(* given (arg) and what it returned (err).                                 *)
(***************************************************************************)
TcpInit ==
    /\ tcp' = netstack_tcp_init
    /\ op' = "init"
    /\ err' = NETSTACK_ERROR_NONE
    /\ arg' = NULL
    /\ calls' = 0
    /\ UNCHANGED <<buffer, layers, payload>>

SetSource(str) ==
    LET r == netstack_tcp_set_source(tcp, str, Len(str)) IN
    /\ tcp' = r.tcp
    /\ op' = "set_source"
    /\ err' = r.err
    /\ arg' = str
    /\ calls' = 0
    /\ UNCHANGED <<buffer, layers, payload>>

SetDestination(str) ==
    LET r == netstack_tcp_set_destination(tcp, str, Len(str)) IN
    /\ tcp' = r.tcp
    /\ op' = "set_destination"
    /\ err' = r.err
    /\ arg' = str
    /\ calls' = 0
    /\ UNCHANGED <<buffer, layers, payload>>

Mutate ==
    \E m \in Mutators :
        LET r == netstack_tcp_mutate(tcp, m) IN
        /\ tcp' = r.tcp
        /\ op' = "mutate"
        /\ err' = r.err
        /\ arg' = m
        /\ calls' = r.calls
        /\ UNCHANGED <<buffer, layers, payload>>

Pack ==
    \E shifted \in netstack_buffer_shift(buffer, 20) :
        LET r == netstack_tcp_pack(tcp, shifted) IN
        /\ tcp' = r.tcp
        /\ buffer' = r.buffer
        /\ op' = "pack"
        /\ err' = r.err
        /\ arg' = shifted.err
        /\ calls' = 0
        /\ layers' = IF r.err = NETSTACK_ERROR_NONE THEN <<tcp>> \o layers ELSE layers
        /\ UNCHANGED payload

Unpack ==
    LET r == netstack_tcp_unpack(tcp, buffer) IN
    /\ tcp' = r.tcp
    /\ buffer' = r.buffer
    /\ op' = "unpack"
    /\ err' = r.err
    /\ arg' = NULL
    /\ calls' = 0
    /\ UNCHANGED <<layers, payload>>

(***************************************************************************)
(* Spec: a caller that initializes, mutates, packs and unpacks in any      *)
(* order, over a buffer that starts with some payload.                     *)
(***************************************************************************)
Ramp(n) == [i \in 1..n |-> (i * 37 + 11) % 256]

Payloads == { <<>>, Ramp(19), Ramp(21) }

Start(headers, payloads, args) ==
    /\ tcp \in headers
    /\ payload \in payloads
    /\ buffer = Buffer(payload)
    /\ op = "init"
    /\ err = NETSTACK_ERROR_NONE
    /\ arg \in args
    /\ calls = 0
    /\ layers = <<>>

Str80 == <<56, 48>>
Str65536 == <<54, 53, 53, 51, 54>>
Str4x == <<52, 120>>

SourceStrings == { Str80 }
DestinationStrings == { Str4x }

Init == Start({netstack_tcp_init}, Payloads, {NULL})

CallSetSource == \E str \in SourceStrings : SetSource(str)

CallSetDestination == \E str \in DestinationStrings : SetDestination(str)

CallPack == Len(layers) < MaxPacks /\ Pack

Next ==
    \/ TcpInit
    \/ CallSetSource
    \/ CallSetDestination
    \/ Mutate
    \/ CallPack
    \/ Unpack

Spec == Init /\ [][Next]_vars

(***************************************************************************)
(* SpecCodec: pack and unpack applied to headers drawn from the ranges of  *)
(* the fields.                                                             *)
(***************************************************************************)
Max16 == 65535
Max32 == U32(65535, 65535)

HeaderSpace ==
    { Header(src, dst, seq, ack, oc[1], bits, win, oc[2], urg) :
        src \in {80, Max16}, dst \in {443, Max16},
        seq \in {U32(0, 1), U32(258, 772)}, ack \in {U32(0, 0), Max32},
        oc \in {<<5, 0>>, <<7, 48879>>},
        bits \in { {} } \cup { {f} : f \in Flags } \cup { {"SYN", "ACK"}, Flags },
        win \in {1, 1234}, urg \in {0, 4660} }

\* Fields wider than the wire's: the callers' types allow them.
WideHeaders ==
    { Header(65536 + 80, 443, U32(0, 1), U32(0, 0), 5, {"SYN"}, 65536 + 1, 0, 65536) }

CodecPayloads == { <<>>, <<170, 187>> }

InitCodec == Start(HeaderSpace \cup WideHeaders, CodecPayloads, {NULL})

TripPack == Len(layers) < MaxTrips /\ Pack

NextCodec ==
    \/ TcpInit
    \/ TripPack
    \/ Unpack

SpecCodec == InitCodec /\ [][NextCodec]_vars

(***************************************************************************)
(* SpecPort: one setter applied to a string drawn from the strings of at   *)
(* most MaxStrLen characters over Alphabet, and a few named ones.          *)
(***************************************************************************)
\* '/', '0', '3', '5', '6', '9', ':'
Alphabet == {47, 48, 51, 53, 54, 57, 58}

Str70000 == <<55, 48, 48, 48, 48>>
Str123456 == <<49, 50, 51, 52, 53, 54>>
Str12345x == <<49, 50, 51, 52, 53, 120>>

Strings ==
    UNION { [1..n -> Alphabet] : n \in 0..MaxStrLen }
    \cup { Str70000, Str65536, Str123456, Str12345x }

PortHeaders ==
    { netstack_tcp_init,
      Header(1111, 2222, U32(0, 7), U32(0, 9), 5, {"SYN"}, 100, 0, 3) }

InitPort == Start(PortHeaders, { <<>> }, Strings)

PortSource == op = "init" /\ SetSource(arg)

PortDestination == op = "init" /\ SetDestination(arg)

NextPort ==
    \/ PortSource
    \/ PortDestination

SpecPort == InitPort /\ [][NextPort]_vars

(***************************************************************************)
(* What the claims speak of, stated apart from the model of the code.      *)
(***************************************************************************)
U16 == 0..65535

\* The fields lie in the ranges of the data model.
InRange(h) ==
    /\ h.source \in U16
    /\ h.destination \in U16
    /\ h.sequence[1] \in U16 /\ h.sequence[2] \in U16
    /\ h.acknowledgment[1] \in U16 /\ h.acknowledgment[2] \in U16
    /\ h.control_bits \subseteq Flags
    /\ h.window_size \in U16
    /\ h.urgent_pointer \in U16

\* The or of the masks of byte 13 for the flags set.
Mask(f, m, bits) == IF f \in bits THEN m ELSE 0

SumMasks(bits) ==
    Mask("CWR", 128, bits) + Mask("ECE", 64, bits) + Mask("URG", 32, bits)
    + Mask("ACK", 16, bits) + Mask("PSH", 8, bits) + Mask("RST", 4, bits)
    + Mask("SYN", 2, bits) + Mask("FIN", 1, bits)

Hi(x) == x \div 256
Lo(x) == x % 256

\* The twenty bytes of the wire format for an in-range header.
Layout(h) ==
    << Hi(h.source), Lo(h.source),
       Hi(h.destination), Lo(h.destination),
       Hi(h.sequence[1]), Lo(h.sequence[1]), Hi(h.sequence[2]), Lo(h.sequence[2]),
       Hi(h.acknowledgment[1]), Lo(h.acknowledgment[1]),
       Hi(h.acknowledgment[2]), Lo(h.acknowledgment[2]),
       IF "NS" \in h.control_bits THEN 81 ELSE 80,
       SumMasks(h.control_bits),
       Hi(h.window_size), Lo(h.window_size),
       0, 0,
       Hi(h.urgent_pointer), Lo(h.urgent_pointer) >>

Front(b) == SubSeq(b.data, 1, 20)

Rest(b) == SubSeq(b.data, 21, Len(b.data))

RECURSIVE Wire(_)
Wire(hs) == IF hs = <<>> THEN <<>> ELSE Layout(Head(hs)) \o Wire(Tail(hs))

ExampleHeader == Header(80, 443, U32(0, 1), U32(0, 0), 5, {"SYN"}, 1, 0, 0)

ExampleBytes == <<0, 80, 1, 187, 0, 0, 0, 1, 0, 0, 0, 0, 80, 2, 0, 1, 0, 0, 0, 0>>

AllDigits(str) == \A i \in 1..Len(str) : str[i] \in 48..57

RECURSIVE Decimal(_)
Decimal(str) ==
    IF str = <<>> THEN 0
    ELSE Decimal(SubSeq(str, 1, Len(str) - 1)) * 10 + (str[Len(str)] - 48)

First5(str) == IF Len(str) > 5 THEN SubSeq(str, 1, 5) ELSE str

IsSetter(o) == o \in {"set_source", "set_destination"}

\* The header h with the port the setter o targets set to v.
WithPort(h, o, v) ==
    IF o = "set_source" THEN [h EXCEPT !.source = v] ELSE [h EXCEPT !.destination = v]

(***************************************************************************)
(* C1.  Round trip: after a successful pack of an in-range header h with   *)
(* data_offset = 5 and checksum = 0, an unpack of the same buffer returns  *)
(* NONE and leaves the target header equal to h in every field, whatever   *)
(* the buffer and the target held before.                                  *)
(***************************************************************************)
C1_RoundTrip ==
    ( /\ op = "unpack"
      /\ layers # <<>>
      /\ InRange(Head(layers))
      /\ Head(layers).data_offset = 5
      /\ Head(layers).checksum = 0 )
    => (err = NETSTACK_ERROR_NONE /\ tcp = Head(layers))

C1_Witness ==
    /\ op = "unpack"
    /\ err = NETSTACK_ERROR_NONE
    /\ payload # <<>>
    /\ layers # <<>>
    /\ Head(layers) =
         Header(Max16, 443, U32(258, 772), Max32, 5, {"NS"}, 1234, 0, 4660)
    /\ tcp = Head(layers)

(***************************************************************************)
(* C2.  Wire layout: after a successful pack of an in-range header, the    *)
(* first 20 bytes of the buffer are the big-endian layout of its fields,   *)
(* with byte 12 = 0x50 + NS and bytes 16-17 zero whatever data_offset and  *)
(* checksum hold; the example header gives the example bytes.              *)
(***************************************************************************)
C2_WireLayout ==
    (op = "pack" /\ err = NETSTACK_ERROR_NONE /\ InRange(tcp))
    => /\ Front(buffer) = Layout(tcp)
       /\ Front(buffer)[13] \in {80, 81}
       /\ (tcp = ExampleHeader => Front(buffer) = ExampleBytes)

C2_Witness ==
    /\ op = "pack"
    /\ err = NETSTACK_ERROR_NONE
    /\ tcp = [ExampleHeader EXCEPT !.data_offset = 7, !.checksum = 48879]
    /\ Front(buffer) = ExampleBytes

(***************************************************************************)
(* C3.  Prepend: a successful pack grows the buffer by 20 bytes, puts the  *)
(* new header in bytes 0..19, keeps the old content in order behind it and *)
(* leaves the header argument alone; so the buffer always reads the        *)
(* headers packed so far, the last one first, and then the payload.        *)
(***************************************************************************)
C3_PackStep ==
    (op' = "pack" /\ err' = NETSTACK_ERROR_NONE)
    => /\ buffer'.size = buffer.size + 20
       /\ Len(buffer'.data) = buffer'.size
       /\ Front(buffer') = Layout(tcp)
       /\ Rest(buffer') = buffer.data
       /\ tcp' = tcp

C3_Stack ==
    /\ buffer.data = Wire(layers) \o payload
    /\ buffer.size = 20 * Len(layers) + Len(payload)

\* C3: every step keeps the pack-step law and the stack of headers over the payload.
C3_Prepend == [][C3_PackStep /\ C3_Stack']_vars

C3_Witness ==
    /\ op = "pack"
    /\ err = NETSTACK_ERROR_NONE
    /\ Len(layers) = 2
    /\ layers[1] # layers[2]
    /\ Len(payload) = 19
    /\ buffer.size = 59

(***************************************************************************)
(* C4.  Pack fails exactly when the shift fails; it then returns the       *)
(* shift's code, and the buffer and the header are as before the call.     *)
(***************************************************************************)
C4_Step ==
    (op' = "pack")
    => /\ (err' # NETSTACK_ERROR_NONE) <=> (arg' # 0)
       /\ (arg' # 0) => (err' = arg' /\ buffer' = buffer /\ tcp' = tcp)

\* C4: every pack step fails exactly when the shift did, with its code and no write.
C4_PackFailure == [][C4_Step]_vars

C4_Witness ==
    /\ op = "pack"
    /\ err = 3
    /\ arg = 3
    /\ Len(layers) = 1
    /\ buffer.size = 39

(***************************************************************************)
(* C5.  Unpack of a buffer shorter than 20 bytes returns MISSING_DATA and  *)
(* leaves the header as it was; of a buffer of 20 bytes or more it returns *)
(* NONE, whatever the bytes.                                               *)
(***************************************************************************)
C5_Step ==
    (op' = "unpack")
    => IF buffer.size < 20
       THEN err' = NETSTACK_ERROR_MISSING_DATA /\ tcp' = tcp
       ELSE err' = NETSTACK_ERROR_NONE

\* C5: every unpack step returns MISSING_DATA below 20 bytes, NONE from 20 on.
C5_UnpackLength == [][C5_Step]_vars

C5_Witness ==
    /\ op = "unpack"
    /\ err = NETSTACK_ERROR_MISSING_DATA
    /\ buffer.size = 19
    /\ tcp.window_size = 1234
    /\ tcp.source = 80

(***************************************************************************)
(* C6.  A setter given 1 to 5 digits of value v <= 65535 returns NONE and  *)
(* sets its port to v; every other field is unchanged.                     *)
(***************************************************************************)
ValidPort(str) ==
    Len(str) \in 1..5 /\ AllDigits(str) /\ Decimal(str) <= 65535

C6_Step ==
    (IsSetter(op') /\ ValidPort(arg'))
    => /\ err' = NETSTACK_ERROR_NONE
       /\ tcp' = WithPort(tcp, op', Decimal(arg'))

\* C6: every setter step on 1 to 5 digits of value <= 65535 stores the value.
C6_PortSuccess == [][C6_Step]_vars

C6_Witness ==
    /\ op = "set_destination"
    /\ arg = <<54, 53, 53, 51, 53>>
    /\ err = NETSTACK_ERROR_NONE
    /\ tcp.destination = 65535
    /\ tcp.source = 1111

(***************************************************************************)
(* C7.  As claimed: a setter returns BAD_FIELD, and changes nothing, when  *)
(* the string has a non-digit among its first 5 characters or its digits   *)
(* represent a value above 65535.                                          *)
(***************************************************************************)
NonDigitInFirst5(str) == ~AllDigits(First5(str))

C7_ClaimedStep ==
    (IsSetter(op') /\ (NonDigitInFirst5(arg') \/ (AllDigits(arg') /\ Decimal(arg') > 65535)))
    => (err' = NETSTACK_ERROR_BAD_FIELD /\ tcp' = tcp)

\* C7 as claimed: every setter step on such a string returns BAD_FIELD.
C7_AsClaimed == [][C7_ClaimedStep]_vars

(***************************************************************************)
(* C7, amended.  A setter returns BAD_FIELD, and changes nothing, when the *)
(* string has a non-digit among its first 5 characters or its first 5      *)
(* characters are digits of a value above 65535.                           *)
(***************************************************************************)
C7_Step ==
    (IsSetter(op') /\ (NonDigitInFirst5(arg') \/ Decimal(First5(arg')) > 65535))
    => (err' = NETSTACK_ERROR_BAD_FIELD /\ tcp' = tcp)

\* C7, amended: every setter step on such a string returns BAD_FIELD.
C7_PortFailure == [][C7_Step]_vars

C7_Witness ==
    /\ op = "set_source"
    /\ arg = Str70000
    /\ err = NETSTACK_ERROR_BAD_FIELD
    /\ tcp.source = 1111

(***************************************************************************)
(* C8.  Mutate without a callback returns NONE and changes no field; with  *)
(* a callback it invokes it once on the mutator's data and the header,     *)
(* returns its code and leaves the header as the callback left it, so a    *)
(* pack that follows encodes the callback's window_size.                   *)
(***************************************************************************)
C8_MutateStep ==
    (op' = "mutate")
    => IF arg'.mutate_tcp = NULL
       THEN err' = NETSTACK_ERROR_NONE /\ tcp' = tcp /\ calls' = 0
       ELSE LET r == RunCallback(arg'.mutate_tcp, arg'.data, tcp) IN
            calls' = 1 /\ err' = r.ret /\ tcp' = r.tcp

C8_PackStep ==
    (op = "mutate" /\ arg.mutate_tcp = "set_window"
        /\ op' = "pack" /\ err' = NETSTACK_ERROR_NONE)
    => Front(buffer')[15] * 256 + Front(buffer')[16] = arg.data

\* C8: every mutate step, and every pack step after a set_window mutate.
C8_Mutate == [][C8_MutateStep /\ C8_PackStep]_vars

C8_Witness ==
    /\ op = "mutate"
    /\ arg.mutate_tcp = "reset"
    /\ calls = 1
    /\ err = 7
    /\ tcp.control_bits = {"RST", "ACK"}
    /\ tcp.source = 80

(***************************************************************************)
(* C9.  The parser reads at most the first 5 characters: a setter's result *)
(* for a string is its result for the string's first 5 characters, and a   *)
(* longer string whose first 5 characters are digits of value v <= 65535   *)
(* stores v and returns NONE, whatever follows.                            *)
(***************************************************************************)
C9_Step ==
    IsSetter(op')
    => LET r == IF op' = "set_source"
                THEN netstack_tcp_set_source(tcp, First5(arg'), Len(First5(arg')))
                ELSE netstack_tcp_set_destination(tcp, First5(arg'), Len(First5(arg')))
       IN /\ err' = r.err
          /\ tcp' = r.tcp
          /\ (Len(arg') > 5 /\ ValidPort(First5(arg')))
                => /\ err' = NETSTACK_ERROR_NONE
                   /\ tcp' = WithPort(tcp, op', Decimal(First5(arg')))

\* C9: every setter step gives the result of the first 5 characters.
C9_Clamp == [][C9_Step]_vars

C9_Witness ==
    /\ op = "set_source"
    /\ arg = Str12345x
    /\ err = NETSTACK_ERROR_NONE
    /\ tcp.source = 12345

(***************************************************************************)
(* C10.  Unpack leaves the buffer's size and bytes alone, whether it       *)
(* succeeds or fails; an unpack right after an unpack returns the same     *)
(* code and gives the same header.                                         *)
(***************************************************************************)
C10_Step ==
    (op' = "unpack")
    => /\ buffer' = buffer
       /\ (op = "unpack") => (err' = err /\ tcp' = tcp)

\* C10: every unpack step leaves the buffer alone and repeats itself.
C10_NoConsume == [][C10_Step]_vars

C10_Witness ==
    /\ op = "unpack"
    /\ err = NETSTACK_ERROR_NONE
    /\ Len(layers) = 1
    /\ buffer.size = 41
    /\ tcp = Head(layers)

=============================================================================
